---- MODULE Spec2Model ----
(***************************************************************************)
(* The task store of app/main.py: the module-level dict tasks_store, the   *)
(* four /tasks handlers, the background coroutine process_task, and the    *)
(* Prometheus middleware that wraps every request.                         *)
(*                                                                         *)
(* The handlers are coroutines without an await in their bodies, so each   *)
(* runs to completion on the event loop: one action per request.           *)
(* process_task has one suspension point, asyncio.sleep.  What it does     *)
(* before the await touches nothing but the log, and starting it later     *)
(* only delays the wake-up; the wake-up may come at any time from          *)
(* WakeTime on, which covers every later start.  So the part before the    *)
(* await belongs to the create that queues the coroutine, and the part    *)
(* after the wake-up is a step of its own.                                 *)
(***************************************************************************)
EXTENDS Integers, Sequences, FiniteSets, Bags, TLC

\* ---------------------------------------------------------------- bounds
MaxTime == 4
MaxRequests == 3

\* asyncio.sleep(2)
SleepDelay == 2

\* ---------------------------------------------------------------- inputs
TaskIds == {"t1", "t2"}

\* TaskRequest bodies: task_id, data, priority
TaskRequest ==
    { [task_id |-> id, data |-> p[1], priority |-> p[2]] :
        id \in TaskIds, p \in {<<"x1", 1>>, <<"x2", 5>>} }

\* Python's None (an optional result that is not there)
None == [none |-> TRUE]

VARIABLES
    tasks_store,       \* the dict, as its items() in insertion order
    now,               \* what time.time() returns
    background,        \* one entry per background_tasks.add_task call
    response,          \* the response of the most recent request
    REQUEST_COUNT,     \* Counter: a bag of (method, endpoint, status_code)
    REQUEST_DURATION   \* Histogram: the number of observations

vars == <<tasks_store, now, background, response, REQUEST_COUNT, REQUEST_DURATION>>

\* ------------------------------------------------------- dict operations
\* A dict is the sequence of its items [key, value] in insertion order.
Keys(d) == { d[i].key : i \in DOMAIN d }

\* key in d
Contains(d, key) == key \in Keys(d)

IndexOf(d, key) == CHOOSE i \in DOMAIN d : d[i].key = key

\* d[key]
GetItem(d, key) == d[IndexOf(d, key)].value

\* a store that appends an item on every write (a list of records)
SetItemAppend(d, key, value) == Append(d, [key |-> key, value |-> value])

\* d[key] = value: an existing key keeps its place, a new one goes last
SetItem(d, key, value) ==
    IF Contains(d, key)
    THEN [d EXCEPT ![IndexOf(d, key)].value = value]
    ELSE Append(d, [key |-> key, value |-> value])

\* d.clear()
DelItemClear(d, key) == <<>>

\* del d[key]
DelItem(d, key) == SelectSeq(d, LAMBDA item : item.key # key)

\* rec.get(field)
DictGet(rec, field) == IF field \in DOMAIN rec THEN rec[field] ELSE None

\* ------------------------------------------------------------ middleware
Label(method, endpoint, status_code) ==
    [method |-> method, endpoint |-> endpoint, status_code |-> status_code]

\* a middleware that observes every request but counts only the successes
metrics_middleware_success_only(method, endpoint, status_code) ==
    /\ REQUEST_DURATION' = REQUEST_DURATION + 1
    /\ REQUEST_COUNT' = IF status_code = 200
                           THEN REQUEST_COUNT (+) SetToBag({Label(method, endpoint, status_code)})
                           ELSE REQUEST_COUNT

\* REQUEST_DURATION.observe(duration); REQUEST_COUNT.labels(...).inc()
metrics_middleware(method, endpoint, status_code) ==
    /\ REQUEST_DURATION' = REQUEST_DURATION + 1
    /\ REQUEST_COUNT' = REQUEST_COUNT (+) SetToBag({Label(method, endpoint, status_code)})

\* ------------------------------------------------------------- handlers
\* a create that stores the status it reports to the caller
NewTaskAccepted(task, t) ==
    [status |-> "accepted", data |-> task.data, priority |-> task.priority,
     created_at |-> t]

\* the record create_task stores
NewTask(task, t) ==
    [status |-> "pending", data |-> task.data, priority |-> task.priority,
     created_at |-> t]

\* a completion step that does not sleep
WakeNow(t) == t

\* await asyncio.sleep(2), entered at time t
WakeTime(t) == t + SleepDelay

\* background_tasks.add_task(process_task, task_id), and process_task up to its
\* await: hit records which create's record the completion step mutated
NewBackground(task_id, t) ==
    [task_id |-> task_id, pc |-> "sleeping", wake |-> WakeTime(t), hit |-> 0]

HTTPException(method, endpoint, status_code, detail) ==
    [method |-> method, endpoint |-> endpoint, status_code |-> status_code,
     body |-> [detail |-> detail]]

\* before the first request
NoResponse == [method |-> "", endpoint |-> <<>>, status_code |-> 0, body |-> None]

Ok(method, endpoint, body) ==
    [method |-> method, endpoint |-> endpoint, status_code |-> 200, body |-> body]

\* a create that updates the stored record in place (tasks_store[id].update)
CreateStoreUpdate(d, task, t) ==
    IF Contains(d, task.task_id)
    THEN SetItem(d, task.task_id, NewTask(task, t) @@ GetItem(d, task.task_id))
    ELSE SetItem(d, task.task_id, NewTask(task, t))

\* a create that runs the processing itself before it answers
CreateStoreInline(d, task, t) ==
    SetItem(d, task.task_id,
            [result |-> [processed_at |-> t, message |-> "Task completed successfully"]]
                @@ [NewTask(task, t) EXCEPT !["status"] = "completed"])

\* POST /tasks
CreateStore(d, task, t) == SetItem(d, task.task_id, NewTask(task, t))

\* an acknowledgement that reports the stored status
CreateResponsePending(task) ==
    Ok("POST", <<"tasks">>,
       [task_id |-> task.task_id, status |-> "pending",
        message |-> "Task created successfully", result |-> None])

CreateResponse(task) ==
    Ok("POST", <<"tasks">>,
       [task_id |-> task.task_id, status |-> "accepted",
        message |-> "Task created successfully", result |-> None])

create_task(task) ==
    /\ REQUEST_DURATION < MaxRequests
    /\ now + SleepDelay <= MaxTime
    /\ tasks_store' = CreateStore(tasks_store, task, now)
    /\ background' = Append(background, NewBackground(task.task_id, now))
    /\ response' = CreateResponse(task)
    /\ metrics_middleware("POST", <<"tasks">>, 200)
    /\ UNCHANGED now

\* GET /tasks/{task_id}
GetResponse(d, task_id) ==
    IF ~Contains(d, task_id)
    THEN HTTPException("GET", <<"tasks", task_id>>, 404, "Task not found")
    ELSE LET task_data == GetItem(d, task_id)
         IN  Ok("GET", <<"tasks", task_id>>,
                [task_id |-> task_id, status |-> task_data["status"],
                 message |-> "Task retrieved successfully",
                 result |-> DictGet(task_data, "result")])

get_task(task_id) ==
    /\ REQUEST_DURATION < MaxRequests
    /\ response' = GetResponse(tasks_store, task_id)
    /\ metrics_middleware("GET", <<"tasks", task_id>>, response'.status_code)
    /\ UNCHANGED <<tasks_store, now, background>>

\* DELETE /tasks/{task_id}
DeleteStore(d, task_id) == IF Contains(d, task_id) THEN DelItem(d, task_id) ELSE d

\* a delete without the existence check
DeleteResponseNoCheck(d, task_id) ==
    Ok("DELETE", <<"tasks", task_id>>, [message |-> "Task deleted successfully"])

DeleteResponse(d, task_id) ==
    IF ~Contains(d, task_id)
    THEN HTTPException("DELETE", <<"tasks", task_id>>, 404, "Task not found")
    ELSE Ok("DELETE", <<"tasks", task_id>>, [message |-> "Task deleted successfully"])

delete_task(task_id) ==
    /\ REQUEST_DURATION < MaxRequests
    /\ tasks_store' = DeleteStore(tasks_store, task_id)
    /\ response' = DeleteResponse(tasks_store, task_id)
    /\ metrics_middleware("DELETE", <<"tasks", task_id>>, response'.status_code)
    /\ UNCHANGED <<now, background>>

\* a list that leaves out the tasks that are completed
ListBodyPendingOnly(d) ==
    LET open == SelectSeq(d, LAMBDA item : item.value["status"] = "pending")
    IN  [tasks |-> [i \in DOMAIN open |-> [task_id |-> open[i].key] @@ open[i].value],
         count |-> Len(open)]

\* GET /tasks
ListBody(d) ==
    [tasks |-> [i \in DOMAIN d |-> [task_id |-> d[i].key] @@ d[i].value],
     count |-> Len(d)]

list_tasks ==
    /\ REQUEST_DURATION < MaxRequests
    /\ response' = Ok("GET", <<"tasks">>, ListBody(tasks_store))
    /\ metrics_middleware("GET", <<"tasks">>, 200)
    /\ UNCHANGED <<tasks_store, now, background>>

\* ---------------------------------------------------- the other endpoints
\* GET /health
health_check ==
    /\ REQUEST_DURATION < MaxRequests
    /\ response' = Ok("GET", <<"health">>,
                      [status |-> "healthy", timestamp |-> now, version |-> "1.0.0"])
    /\ metrics_middleware("GET", <<"health">>, 200)
    /\ UNCHANGED <<tasks_store, now, background>>

\* GET /health/ready: the dependency check is empty, so it never answers 503
readiness_check ==
    /\ REQUEST_DURATION < MaxRequests
    /\ response' = Ok("GET", <<"health", "ready">>, [status |-> "ready", timestamp |-> now])
    /\ metrics_middleware("GET", <<"health", "ready">>, 200)
    /\ UNCHANGED <<tasks_store, now, background>>

\* GET /health/live
liveness_check ==
    /\ REQUEST_DURATION < MaxRequests
    /\ response' = Ok("GET", <<"health", "live">>, [status |-> "alive", timestamp |-> now])
    /\ metrics_middleware("GET", <<"health", "live">>, 200)
    /\ UNCHANGED <<tasks_store, now, background>>

\* GET /metrics: generate_latest(), the counts as they are before this request
\* is counted
metrics ==
    /\ REQUEST_DURATION < MaxRequests
    /\ response' = Ok("GET", <<"metrics">>,
                      [http_requests_total |-> REQUEST_COUNT,
                       http_request_duration_seconds_count |-> REQUEST_DURATION])
    /\ metrics_middleware("GET", <<"metrics">>, 200)
    /\ UNCHANGED <<tasks_store, now, background>>

\* GET /
root ==
    /\ REQUEST_DURATION < MaxRequests
    /\ response' = Ok("GET", <<>>,
                      [message |-> "Ephemeral Backend API", version |-> "1.0.0",
                       docs |-> "/docs", health |-> "/health"])
    /\ metrics_middleware("GET", <<>>, 200)
    /\ UNCHANGED <<tasks_store, now, background>>

\* ------------------------------------------------------- background task
\* the latest create of task_id wrote the record stored under it
Owner(bg, task_id) ==
    LET gs == { g \in DOMAIN bg : bg[g].task_id = task_id }
    IN  IF gs = {} THEN 0 ELSE CHOOSE g \in gs : \A h \in gs : h <= g

\* a completion that writes the result and leaves the status
CompletedResultOnly(rec, t) ==
    [result |-> [processed_at |-> t, message |-> "Task completed successfully"]] @@ rec

\* a completion that also stamps the record itself with the current time
CompletedTouch(rec, t) ==
    [result |-> [processed_at |-> t, message |-> "Task completed successfully"]]
        @@ [rec EXCEPT !["status"] = "completed", !["created_at"] = t]

\* a completion that stores a new record in place of the old one
CompletedReplace(rec, t) ==
    [status |-> "completed",
     result |-> [processed_at |-> t, message |-> "Task completed successfully"]]

\* a completion cut off between its two assignments
CompletedStatusOnly(rec, t) == [rec EXCEPT !["status"] = "completed"]

\* a completion stamped with the time of the create
CompletedStale(rec, t) ==
    [result |-> [processed_at |-> rec["created_at"],
                 message |-> "Task completed successfully"]]
        @@ [rec EXCEPT !["status"] = "completed"]

\* the two assignments under `if task_id in tasks_store`
Completed(rec, t) ==
    [result |-> [processed_at |-> t, message |-> "Task completed successfully"]]
        @@ [rec EXCEPT !["status"] = "completed"]

\* a completion that marks every stored task, not only its own
ProcessStoreAll(d, task_id, t) ==
    IF Contains(d, task_id)
    THEN [i \in DOMAIN d |-> [d[i] EXCEPT !.value = Completed(d[i].value, t)]]
    ELSE d

\* a completion that writes without the existence check
ProcessStoreNoCheck(d, task_id, t) ==
    SetItem(d, task_id,
            Completed(IF Contains(d, task_id) THEN GetItem(d, task_id) ELSE [status |-> "pending"], t))

ProcessStore(d, task_id, t) ==
    IF Contains(d, task_id)
    THEN SetItem(d, task_id, Completed(GetItem(d, task_id), t))
    ELSE d

\* process_task from the wake-up to its end
process_task_resume(g) ==
    /\ g \in DOMAIN background
    /\ background[g].pc = "sleeping"
    /\ now >= background[g].wake
    /\ tasks_store' = ProcessStore(tasks_store, background[g].task_id, now)
    /\ background' = [background EXCEPT
          ![g].pc = "done",
          ![g].wake = 0,
          ![g].hit = IF Contains(tasks_store, background[g].task_id)
                     THEN Owner(background, background[g].task_id) ELSE 0]
    /\ UNCHANGED <<now, response, REQUEST_COUNT, REQUEST_DURATION>>

\* ------------------------------------------------------------------ time
\* The clock stops at MaxTime.
Tick ==
    /\ now < MaxTime
    /\ now' = now + 1
    /\ UNCHANGED <<tasks_store, background, response, REQUEST_COUNT, REQUEST_DURATION>>

\* --------------------------------------------------------- specification
Init ==
    /\ tasks_store = <<>>
    /\ now = 0
    /\ background = <<>>
    /\ response = NoResponse
    /\ REQUEST_COUNT = EmptyBag
    /\ REQUEST_DURATION = 0

Create == \E task \in TaskRequest : create_task(task)
Get == \E task_id \in TaskIds : get_task(task_id)
Delete == \E task_id \in TaskIds : delete_task(task_id)
List == list_tasks
Resume == \E g \in 1..MaxRequests : process_task_resume(g)

Next ==
    \/ Create \/ Get \/ Delete \/ List
    \/ health_check \/ readiness_check \/ liveness_check \/ metrics \/ root
    \/ Resume \/ Tick

Spec == Init /\ [][Next]_vars

LiveSpec ==
    /\ Spec
    /\ WF_vars(Tick)
    /\ \A g \in 1..MaxRequests : WF_vars(process_task_resume(g))

\* ================================================================ claims
\* the step in which the completion step of create number g runs
Resumed(g) ==
    /\ g \in DOMAIN background
    /\ background[g].pc = "sleeping"
    /\ background'[g].pc = "done"

\* a successful DELETE of task_id has been answered
Deleted(task_id) ==
    BagIn(Label("DELETE", <<"tasks", task_id>>, 200), REQUEST_COUNT)

NoDelete == \A l \in BagToSet(REQUEST_COUNT) : l.method # "DELETE"

\* C1: when the completion step of the latest create of task_id runs after
\* task_id was deleted, it leaves the whole store unchanged, task_id stays
\* absent and a get of it answers 404.
C1_NoResurrection ==
    [][\A g \in DOMAIN background :
         LET id == background[g].task_id
         IN  ( /\ Resumed(g)
               /\ Owner(background, id) = g
               /\ ~Contains(tasks_store, id) )
             => ( /\ tasks_store' = tasks_store
                  /\ ~Contains(tasks_store', id)
                  /\ GetResponse(tasks_store', id).status_code = 404 )]_vars

\* create, delete, completion step, get: the get was answered 404
C1_Witness ==
    \E g \in DOMAIN background :
        LET id == background[g].task_id
        IN  /\ background[g].pc = "done"
            /\ background[g].hit = 0
            /\ Owner(background, id) = g
            /\ Deleted(id)
            /\ ~Contains(tasks_store, id)
            /\ response = GetResponse(tasks_store, id)
            /\ response.status_code = 404

\* a stored record has a non-empty result
HasResult(rec) ==
    /\ "result" \in DOMAIN rec
    /\ rec["result"] # None
    /\ DOMAIN rec["result"] # {}

\* C2: in every reachable state every stored record has a non-empty result
\* if and only if its status is completed.
C2_ResultIffCompleted ==
    \A i \in DOMAIN tasks_store :
        HasResult(tasks_store[i].value) <=> tasks_store[i].value["status"] = "completed"

\* a completed record was created again and is pending, next to a completed one
C2_Witness ==
    /\ NoDelete
    /\ \E g, h \in DOMAIN background :
          /\ g < h
          /\ background[g].task_id = background[h].task_id
          /\ background[g].hit = g
          /\ background[h].pc # "done"
          /\ Contains(tasks_store, background[h].task_id)
          /\ GetItem(tasks_store, background[h].task_id)["status"] = "pending"
    /\ \E i \in DOMAIN tasks_store : tasks_store[i].value["status"] = "completed"

\* C3: in the state a create(task_id) leaves, whatever the store held before,
\* get(task_id) answers 200 with status pending and no result.
C3_CreateThenGet ==
    [][\A task \in TaskRequest :
         create_task(task)
         => LET r == GetResponse(tasks_store', task.task_id)
            IN  /\ r.status_code = 200
                /\ r.body.status = "pending"
                /\ r.body.result = None]_vars

\* a get answered pending right after the create of a task_id that was completed
C3_Witness ==
    /\ NoDelete
    /\ \E g, h \in DOMAIN background :
          /\ g < h
          /\ background[g].task_id = background[h].task_id
          /\ response = GetResponse(tasks_store, background[h].task_id)
          /\ response.status_code = 200
          /\ response.body.status = "pending"
          /\ response.body.result = None
          /\ background[g].hit = g
          /\ background[h].pc = "sleeping"
          /\ now + SleepDelay = background[h].wake

Pending(task_id) ==
    /\ Contains(tasks_store, task_id)
    /\ GetItem(tasks_store, task_id)["status"] = "pending"

\* what get(task_id) answers for a completed task
AnswersCompleted(task_id) ==
    LET r == GetResponse(tasks_store, task_id)
    IN  /\ r.status_code = 200
        /\ r.body.status = "completed"
        /\ r.body.result # None
        /\ "processed_at" \in DOMAIN r.body.result
        /\ r.body.result["processed_at"] \in 0..MaxTime

\* C4 as stated: once the fixed delay has elapsed since the create of a stored
\* (not deleted) record, get answers completed with a result holding a timestamp.
C4_CompletedOnceDelayElapsed ==
    \A i \in DOMAIN tasks_store :
        now >= tasks_store[i].value["created_at"] + SleepDelay
        => AnswersCompleted(tasks_store[i].key)

\* C4, amended: under fair scheduling of the clock and of the completion steps,
\* a stored pending record is eventually deleted or answered by get as completed
\* with a result holding a completion timestamp (the elapse of the delay alone
\* does not make it so).
C4_EventuallyCompleted ==
    \A task_id \in TaskIds :
        Pending(task_id) ~> (~Contains(tasks_store, task_id) \/ AnswersCompleted(task_id))

\* a record created once and never deleted is answered as completed, the
\* completion having waited longer than the delay
C4_Witness ==
    /\ NoDelete
    /\ Len(background) = 1
    /\ background[1].hit = 1
    /\ AnswersCompleted(background[1].task_id)
    /\ response = GetResponse(tasks_store, background[1].task_id)
    /\ LET rec == GetItem(tasks_store, background[1].task_id)
       IN  rec["result"]["processed_at"] > rec["created_at"] + SleepDelay

\* the completion steps that mutated the record written by create number g
Hits(g) == Cardinality({ h \in DOMAIN background : background[h].hit = g })

\* the creates of task_id up to create number g
CreatesUpTo(g) ==
    { h \in DOMAIN background : h <= g /\ background[h].task_id = background[g].task_id }

\* C5 as stated: the record of every create is mutated by the completion step
\* at most once, and exactly once by the time it is deleted.
C5_ExactlyOnce ==
    \A g \in DOMAIN background :
        LET id == background[g].task_id
        IN  /\ Hits(g) <= 1
            /\ (Owner(background, id) = g /\ ~Contains(tasks_store, id)) => Hits(g) = 1

\* C5, amended: a record is mutated once by every completion step of its task_id
\* that runs while it is stored, and by nothing else: only by steps of creates of
\* the same task_id up to its own, not at all when it is deleted first (a step
\* no-ops only after a delete), exactly once when its task_id was created once
\* and never deleted, and it is completed exactly when it was mutated.
C5_OncePerStepWhileStored ==
    \A g \in DOMAIN background :
        LET id == background[g].task_id
        IN  /\ \A h \in DOMAIN background :
                  background[h].hit = g => h \in CreatesUpTo(g) /\ background[h].pc = "done"
            /\ Hits(g) <= Cardinality(CreatesUpTo(g))
            /\ (background[g].pc = "done" /\ background[g].hit = 0) => Deleted(id)
            /\ (Owner(background, id) = g /\ Contains(tasks_store, id))
                  => (GetItem(tasks_store, id)["status"] = "completed" <=> Hits(g) >= 1)
            /\ ({h \in DOMAIN background : background[h].task_id = id} = {g}
                /\ background[g].pc = "done" /\ ~Deleted(id)) => Hits(g) = 1

\* a record mutated twice: by the step of an earlier create of its task_id and
\* by the step of its own create
C5_Witness ==
    \E g \in DOMAIN background :
        /\ Hits(g) = 2
        /\ Owner(background, background[g].task_id) = g
        /\ Contains(tasks_store, background[g].task_id)

\* C6: every create queues exactly one completion step, delete and the other
\* requests queue and cancel none, so the steps run or pending are as many as
\* the creates answered; a step runs at most once, after its create, and not
\* before the fixed delay counted from that create has elapsed.
C6_Counts ==
    /\ Len(background) = CopiesIn(Label("POST", <<"tasks">>, 200), REQUEST_COUNT)
    /\ \A g \in DOMAIN background : background[g].pc \in {"sleeping", "done"}

C6_Step ==
    /\ \A g \in DOMAIN background :
          /\ g \in DOMAIN background'
          /\ background'[g].task_id = background[g].task_id
          /\ background[g].pc = "done" => background'[g] = background[g]
          /\ background'[g].pc = "sleeping" => background'[g] = background[g]
          /\ Resumed(g) => now >= background[g].wake
    /\ \A task \in TaskRequest :
          create_task(task)
          => /\ Len(background') = Len(background) + 1
             /\ background'[Len(background')].task_id = task.task_id
             /\ background'[Len(background')].pc = "sleeping"
             /\ background'[Len(background')].wake = now + SleepDelay
    /\ (\E task_id \in TaskIds : delete_task(task_id) \/ get_task(task_id)) \/ list_tasks
          => background' = background

C6_OneStepPerCreate == [](C6_Counts) /\ [][C6_Step]_vars

\* two creates and a successful delete: one step has run, one is pending
C6_Witness ==
    /\ Len(background) = 2
    /\ \E task_id \in TaskIds : Deleted(task_id)
    /\ \E g, h \in DOMAIN background :
          background[g].pc = "done" /\ background[h].pc = "sleeping"

\* C7: get(task_id) and delete(task_id) answer 404 exactly when task_id is absent
\* from the store at the call and 200 otherwise, and a call answered 404 leaves
\* the store unchanged.
C7_NotFoundIffAbsent ==
    [][\A task_id \in TaskIds :
         (get_task(task_id) \/ delete_task(task_id))
         => /\ response'.status_code = IF Contains(tasks_store, task_id) THEN 200 ELSE 404
            /\ response'.endpoint = <<"tasks", task_id>>
            /\ response'.status_code = 404
                  => tasks_store' = tasks_store /\ response'.body = [detail |-> "Task not found"]]_vars

\* a delete of an absent task_id answered 404 while another task is stored,
\* after a get that was answered 200
C7_Witness ==
    /\ response.method = "DELETE"
    /\ response.status_code = 404
    /\ tasks_store # <<>>
    /\ \E l \in BagToSet(REQUEST_COUNT) : l.method = "GET" /\ l.status_code = 200

\* C8: a create of a task_id that is already stored leaves the number of stored
\* records as it was and exactly one record under that task_id, which carries
\* the data and priority of this create, status pending and no result.
C8_Overwrite ==
    [][\A task \in TaskRequest :
         (create_task(task) /\ Contains(tasks_store, task.task_id))
         => /\ Len(tasks_store') = Len(tasks_store)
            /\ Cardinality({ i \in DOMAIN tasks_store' :
                               tasks_store'[i].key = task.task_id }) = 1
            /\ LET rec == GetItem(tasks_store', task.task_id)
               IN  /\ rec["data"] = task.data
                   /\ rec["priority"] = task.priority
                   /\ rec["status"] = "pending"
                   /\ ~HasResult(rec)
                   /\ DictGet(rec, "result") = None]_vars

\* task_id was created, completed, and created again with other data while a
\* record of another task_id is stored
C8_Witness ==
    /\ NoDelete
    /\ Len(background) = 3
    /\ Len(tasks_store) = 2
    /\ background[1].task_id = background[3].task_id
    /\ background[1].hit = 1
    /\ response.method = "POST"
    /\ response.body.task_id = background[1].task_id
    /\ LET rec == GetItem(tasks_store, background[1].task_id)
       IN  rec["status"] = "pending" /\ rec["created_at"] > 0 /\ rec["data"] = "x2"

\* the entries list() returns for task_id
Listed(d, task_id) ==
    { i \in DOMAIN ListBody(d).tasks : ListBody(d).tasks[i].task_id = task_id }

\* C9: in every state list() returns one entry, with the stored fields, for each
\* stored task_id and none for an absent one, and count is the number of stored
\* records; a create of a new task_id raises both by one and a delete of a
\* stored one lowers both by one, and list answers with that body.
C9_State ==
    LET body == ListBody(tasks_store)
    IN  /\ body.count = Cardinality(Keys(tasks_store))
        /\ Len(body.tasks) = body.count
        /\ \A task_id \in TaskIds :
              IF Contains(tasks_store, task_id)
              THEN /\ Cardinality(Listed(tasks_store, task_id)) = 1
                   /\ \A i \in Listed(tasks_store, task_id) :
                         \A f \in DOMAIN GetItem(tasks_store, task_id) :
                            body.tasks[i][f] = GetItem(tasks_store, task_id)[f]
              ELSE Listed(tasks_store, task_id) = {}

C9_Step ==
    /\ list_tasks => response'.status_code = 200 /\ response'.body = ListBody(tasks_store)
    /\ \A task \in TaskRequest :
          (create_task(task) /\ ~Contains(tasks_store, task.task_id))
          => /\ ListBody(tasks_store').count = ListBody(tasks_store).count + 1
             /\ Len(ListBody(tasks_store').tasks) = Len(ListBody(tasks_store).tasks) + 1
    /\ \A task_id \in TaskIds :
          (delete_task(task_id) /\ Contains(tasks_store, task_id))
          => /\ ListBody(tasks_store').count = ListBody(tasks_store).count - 1
             /\ Len(ListBody(tasks_store').tasks) = Len(ListBody(tasks_store).tasks) - 1

C9_ListIsTheStore == [](C9_State) /\ [][C9_Step]_vars

\* two distinct task_ids were created, one of them completed, and list answered
\* with both
C9_Witness ==
    /\ response.method = "GET"
    /\ response.endpoint = <<"tasks">>
    /\ response.body = ListBody(tasks_store)
    /\ response.body.count = 2
    /\ \E i \in DOMAIN tasks_store : tasks_store[i].value["status"] = "completed"

\* C10: a delete of a stored task_id removes that record and no other: right
\* after it get(task_id) answers 404, and every other task_id is stored as
\* before, with the same record.
C10_DeleteFrame ==
    [][\A task_id \in TaskIds :
         (delete_task(task_id) /\ Contains(tasks_store, task_id))
         => /\ ~Contains(tasks_store', task_id)
            /\ GetResponse(tasks_store', task_id).status_code = 404
            /\ \A other \in TaskIds \ {task_id} :
                  /\ Contains(tasks_store', other) <=> Contains(tasks_store, other)
                  /\ Contains(tasks_store, other)
                        => GetItem(tasks_store', other) = GetItem(tasks_store, other)]_vars

\* a delete answered 200 left the completed record of the other task_id stored
C10_Witness ==
    /\ response.method = "DELETE"
    /\ response.status_code = 200
    /\ ~Contains(tasks_store, response.endpoint[2])
    /\ \E i \in DOMAIN tasks_store : tasks_store[i].value["status"] = "completed"

\* the statuses a stored record can have
StoredStatus == {"pending", "completed"}

\* C11: every create is answered 200 with status accepted, whatever the store
\* held under its task_id; every stored record has status pending or completed,
\* and that is the status get reports, so get never reports accepted.
C11_State ==
    \A i \in DOMAIN tasks_store :
        /\ tasks_store[i].value["status"] \in StoredStatus
        /\ GetResponse(tasks_store, tasks_store[i].key).body.status \in StoredStatus

C11_Step ==
    /\ \A task \in TaskRequest :
          create_task(task)
          => /\ response'.status_code = 200
             /\ response'.body.status = "accepted"
             /\ response'.body.task_id = task.task_id
    /\ \A task_id \in TaskIds :
          (get_task(task_id) /\ Contains(tasks_store, task_id))
          => /\ response'.body.status = GetItem(tasks_store, task_id)["status"]
             /\ response'.body.status # "accepted"

C11_AcceptedOnlyInAck == [](C11_State) /\ [][C11_Step]_vars

\* a create of a task_id whose record was completed has just been answered
\* accepted
C11_Witness ==
    /\ NoDelete
    /\ response.method = "POST"
    /\ response.body.status = "accepted"
    /\ Pending(response.body.task_id)
    /\ \E g \in DOMAIN background :
          /\ background[g].task_id = response.body.task_id
          /\ background[g].hit = g
          /\ g < Owner(background, response.body.task_id)

\* C12 as stated: the result of a completed record has exactly the fields
\* completed_at and message.
C12_CompletedAtField ==
    \A i \in DOMAIN tasks_store :
        tasks_store[i].value["status"] = "completed"
        => DOMAIN tasks_store[i].value["result"] = {"completed_at", "message"}

\* C12, amended: a completion step that finds task_id stored sets its status to
\* completed and its result to the record with exactly the fields processed_at,
\* the current time, and message, "Task completed successfully".
C12_CompletionWrites ==
    [][\A g \in DOMAIN background :
         (Resumed(g) /\ Contains(tasks_store, background[g].task_id))
         => /\ Contains(tasks_store', background[g].task_id)
            /\ LET rec == GetItem(tasks_store', background[g].task_id)
               IN  /\ rec["status"] = "completed"
                   /\ DOMAIN rec["result"] = {"processed_at", "message"}
                   /\ rec["result"]["processed_at"] = now
                   /\ rec["result"]["message"] = "Task completed successfully"]_vars

\* a record completed later than the time of its create
C12_Witness ==
    \E g \in DOMAIN background :
        /\ background[g].hit = g
        /\ Contains(tasks_store, background[g].task_id)
        /\ LET rec == GetItem(tasks_store, background[g].task_id)
           IN  /\ rec["status"] = "completed"
               /\ rec["result"]["processed_at"] = now
               /\ rec["result"]["processed_at"] > rec["created_at"]

\* a completion step whose sleep is over
Due(g) == background[g].pc = "sleeping" /\ now >= background[g].wake

\* C13: a completion step that is due can always run, and it is one step: it
\* either finds its task_id stored and writes status and result together, or
\* finds it absent and leaves the store as it is; no state in between (status
\* written, result not) is ever visible to a request.
C13_State ==
    /\ \A g \in DOMAIN background : Due(g) => ENABLED process_task_resume(g)
    /\ \A i \in DOMAIN tasks_store :
          tasks_store[i].value["status"] = "completed" => HasResult(tasks_store[i].value)

C13_Step ==
    \A g \in DOMAIN background :
        Resumed(g)
        => LET id == background[g].task_id
           IN  IF Contains(tasks_store, id)
               THEN /\ Keys(tasks_store') = Keys(tasks_store)
                    /\ GetItem(tasks_store', id)["status"] = "completed"
                    /\ HasResult(GetItem(tasks_store', id))
                    /\ background'[g].hit # 0
               ELSE /\ tasks_store' = tasks_store
                    /\ background'[g].hit = 0

C13_MutatesOrNoOps == [](C13_State) /\ [][C13_Step]_vars

\* both outcomes have happened: one step mutated a stored record, another found
\* its task_id deleted
C13_Witness ==
    \E g, h \in DOMAIN background :
        /\ background[g].pc = "done" /\ background[g].hit # 0
        /\ background[h].pc = "done" /\ background[h].hit = 0

\* the completion step of create number g has not run
Sleeping(g) == background[g].pc = "sleeping"

\* C14: when a create is answered its completion step has not touched the
\* store (the record is pending, the step is asleep until a later time), and
\* while completion steps are pending every request can still be served.
C14_State ==
    ((\E g \in DOMAIN background : Sleeping(g)) /\ REQUEST_DURATION < MaxRequests)
    => /\ \A task_id \in TaskIds :
             ENABLED get_task(task_id) /\ ENABLED delete_task(task_id)
       /\ ENABLED list_tasks
       /\ now + SleepDelay <= MaxTime => \A task \in TaskRequest : ENABLED create_task(task)

C14_Step ==
    \A task \in TaskRequest :
        create_task(task)
        => /\ response' = CreateResponse(task)
           /\ background'[Len(background')].pc = "sleeping"
           /\ background'[Len(background')].wake > now
           /\ background'[Len(background')].hit = 0
           /\ GetItem(tasks_store', task.task_id)["status"] = "pending"
           /\ ~HasResult(GetItem(tasks_store', task.task_id))

C14_AckBeforeCompletion == [](C14_State) /\ [][C14_Step]_vars

\* two more requests were served between a create's acknowledgement and the run
\* of its completion step, which is overdue
C14_Witness ==
    /\ Len(background) = 1
    /\ Sleeping(1)
    /\ now > background[1].wake
    /\ REQUEST_DURATION = 3
    /\ response = GetResponse(tasks_store, background[1].task_id)
    /\ response.status_code = 200
    /\ response.body.status = "pending"

\* C15 as stated: a completion step mutates only the record of the create that
\* scheduled it, so no stored record is completed before the fixed delay
\* counted from its own create has elapsed.
C15_OwnStepOnly ==
    /\ \A g \in DOMAIN background : background[g].hit \in {0, g}
    /\ \A i \in DOMAIN tasks_store :
          tasks_store[i].value["status"] = "completed"
          => tasks_store[i].value["result"]["processed_at"]
                >= tasks_store[i].value["created_at"] + SleepDelay

\* C16: a completion step that runs on a record that is already completed
\* leaves it completed with the same fields, the same message, data, priority
\* and created_at; only the timestamp in the result is written anew (the time
\* of this run, not earlier than the one before).
C16_SecondRunRefreshes ==
    [][\A g \in DOMAIN background :
         LET id == background[g].task_id
         IN  ( /\ Resumed(g)
               /\ Contains(tasks_store, id)
               /\ GetItem(tasks_store, id)["status"] = "completed" )
             => LET old == GetItem(tasks_store, id)
                    new == GetItem(tasks_store', id)
                IN  /\ DOMAIN new = DOMAIN old
                    /\ new["status"] = "completed"
                    /\ DOMAIN new["result"] = DOMAIN old["result"]
                    /\ new["result"]["message"] = old["result"]["message"]
                    /\ new["result"]["processed_at"] = now
                    /\ new["result"]["processed_at"] >= old["result"]["processed_at"]
                    /\ new["data"] = old["data"]
                    /\ new["priority"] = old["priority"]
                    /\ new["created_at"] = old["created_at"]]_vars

\* the second run on a record has just stamped it, later than the first run
\* could have at the earliest
C16_Witness ==
    \E g \in DOMAIN background :
        /\ Hits(g) = 2
        /\ Contains(tasks_store, background[g].task_id)
        /\ LET rec == GetItem(tasks_store, background[g].task_id)
           IN  /\ rec["status"] = "completed"
               /\ rec["result"]["processed_at"] = now
               /\ rec["result"]["processed_at"] > rec["created_at"] + SleepDelay

\* what the store holds under task_id: its record, or nothing
Lookup(d, task_id) == IF Contains(d, task_id) THEN <<GetItem(d, task_id)>> ELSE <<>>

\* C17: create(a), delete(a) and the completion step of a leave what is stored
\* under every other task_id as it was, and what is stored under a task_id
\* changes in no step but a create, a delete or a completion step of that
\* task_id (so its record is the work of its own operations alone).
C17_Same(a) ==
    \A b \in TaskIds \ {a} : Lookup(tasks_store', b) = Lookup(tasks_store, b)

C17_Frame ==
    /\ \A task \in TaskRequest : (create_task(task) => C17_Same(task.task_id))
    /\ \A task_id \in TaskIds : (delete_task(task_id) => C17_Same(task_id))
    /\ \A g \in DOMAIN background : (Resumed(g) => C17_Same(background[g].task_id))

C17_Cause ==
    \A c \in TaskIds :
        Lookup(tasks_store', c) # Lookup(tasks_store, c)
        => ( \/ \E task \in TaskRequest : task.task_id = c /\ create_task(task)
             \/ delete_task(c)
             \/ \E h \in DOMAIN background : background[h].task_id = c /\ Resumed(h) )

C17_OtherIdsUntouched == [][C17_Frame /\ C17_Cause]_vars

\* one task_id was completed by its step while the other, created before that
\* step ran, is still pending as its create left it
C17_Witness ==
    \E g, h \in DOMAIN background :
        /\ background[g].task_id # background[h].task_id
        /\ background[g].hit = g
        /\ Sleeping(h)
        /\ Pending(background[h].task_id)
        /\ Contains(tasks_store, background[g].task_id)
        /\ GetItem(tasks_store, background[g].task_id)["status"] = "completed"
        /\ GetItem(tasks_store, background[h].task_id)["created_at"]
              < GetItem(tasks_store, background[g].task_id)["result"]["processed_at"]

\* the fields of a record that only a create writes
CreateFields == {"data", "priority", "created_at"}

\* C18: get and list leave the store (and the pending completion steps) as they
\* are; a create writes data, priority and created_at from its request and the
\* current time; a completion step on a stored record adds or rewrites status
\* and result only, so those three fields stay as the create wrote them until
\* the next create or delete of the task_id.
C18_ReadOnly ==
    ((\E task_id \in TaskIds : get_task(task_id)) \/ list_tasks)
    => /\ tasks_store' = tasks_store
       /\ background' = background
       /\ now' = now

C18_CreateWrites ==
    \A task \in TaskRequest :
        create_task(task)
        => LET rec == GetItem(tasks_store', task.task_id)
           IN  /\ DOMAIN rec = CreateFields \cup {"status"}
               /\ rec["data"] = task.data
               /\ rec["priority"] = task.priority
               /\ rec["created_at"] = now

C18_CompletionKeeps ==
    \A g \in DOMAIN background :
        (Resumed(g) /\ Contains(tasks_store, background[g].task_id))
        => LET old == GetItem(tasks_store, background[g].task_id)
               new == GetItem(tasks_store', background[g].task_id)
           IN  /\ DOMAIN new = DOMAIN old \cup {"result"}
               /\ \A f \in CreateFields : new[f] = old[f]

C18_ReadsAndCompletionFrame ==
    [][C18_ReadOnly /\ C18_CreateWrites /\ C18_CompletionKeeps]_vars

\* a record created with data x2 and priority 5 at time 1 was completed, then
\* listed, then fetched, and still has those three values
C18_Witness ==
    /\ BagIn(Label("GET", <<"tasks">>, 200), REQUEST_COUNT)
    /\ \E task_id \in TaskIds :
          /\ response = GetResponse(tasks_store, task_id)
          /\ response.status_code = 200
          /\ response.body.status = "completed"
          /\ LET rec == GetItem(tasks_store, task_id)
             IN  rec["data"] = "x2" /\ rec["priority"] = 5 /\ rec["created_at"] = 1

\* ---------------------------------------------------------------- C19
\* C19: the request counter of every (method, path, status) label never
\* decreases; every request that ends in a response, a success or a 404, adds
\* exactly one to the counter of its own label, leaves every other label's
\* counter alone and adds exactly one observation to the duration histogram;
\* a step that is not a request changes neither; so the sum of all counters
\* always equals the number of observations.
C19_Request ==
    \/ Create \/ Get \/ Delete \/ List
    \/ health_check \/ readiness_check \/ liveness_check \/ metrics \/ root

C19_Labels == BagToSet(REQUEST_COUNT) \cup BagToSet(REQUEST_COUNT')

C19_State == BagCardinality(REQUEST_COUNT) = REQUEST_DURATION

C19_Monotone ==
    \A l \in C19_Labels : CopiesIn(l, REQUEST_COUNT') >= CopiesIn(l, REQUEST_COUNT)

C19_Counted ==
    C19_Request
    => LET own == Label(response'.method, response'.endpoint, response'.status_code)
       IN  /\ response'.status_code \in {200, 404}
           /\ CopiesIn(own, REQUEST_COUNT') = CopiesIn(own, REQUEST_COUNT) + 1
           /\ \A l \in C19_Labels \ {own} :
                  CopiesIn(l, REQUEST_COUNT') = CopiesIn(l, REQUEST_COUNT)
           /\ REQUEST_DURATION' = REQUEST_DURATION + 1

C19_NotCounted ==
    ~C19_Request
    => /\ REQUEST_COUNT' = REQUEST_COUNT
       /\ REQUEST_DURATION' = REQUEST_DURATION

C19_RequestMetrics ==
    /\ []C19_State
    /\ [][C19_Monotone /\ C19_Counted /\ C19_NotCounted]_vars

\* two successful probes and one 404 were counted: one label stands at 2,
\* another at 1, and the histogram holds three observations
C19_Witness ==
    /\ CopiesIn(Label("GET", <<"health">>, 200), REQUEST_COUNT) = 2
    /\ \E task_id \in TaskIds :
          CopiesIn(Label("DELETE", <<"tasks", task_id>>, 404), REQUEST_COUNT) = 1
    /\ REQUEST_DURATION = 3

====
